---- MODULE Spec2Model ----
(***************************************************************************)
(* Model of pyowm/webapi25/weatherutils.py: search and filter utilities    *)
(* over lists of Weather objects.                                          *)
(*                                                                         *)
(* A Weather object is a record [code, detailed_status, reference_time].   *)
(* A Python str is a sequence of one-character strings, so that lower()    *)
(* and the `in` substring test are computed character by character.        *)
(* The state holds the arguments of a call, the operation called and its   *)
(* outcome; any_status_is is unrolled one loop iteration per step, with    *)
(* the registry's lookups logged in `queried`.                             *)
(***************************************************************************)
EXTENDS Integers, Sequences, FiniteSets

VARIABLES
    weather,                \* the single Weather argument
    weathers_list,          \* the list of Weather objects argument
    status,                 \* the status argument of status_is/any_status_is
    weather_code_registry,  \* the registry argument: code -> label or NoLabel
    word_list,              \* the keyword list argument
    unixtime,               \* the timestamp argument
    op,                     \* the operation called ("idle" before any call)
    pc,                     \* "idle", "scan" (inside any_status_is' loop), "done"
    i,                      \* any_status_is: index of the next record to scan
    queried,                \* codes the registry was asked for, in order
    result                  \* [kind, value]: the outcome of the call

vars == <<weather, weathers_list, status, weather_code_registry, word_list,
          unixtime, op, pc, i, queried, result>>

inputs == <<weather, weathers_list, status, weather_code_registry, word_list,
            unixtime>>

(***************************** bounds **************************************)
MaxLen == 3

MaxWords == 2

MaxStrLen == 2

MaxTime == 5

(***************************** strings *************************************)
UpperCase == <<"A", "B", "C", "D", "E", "F", "G", "H", "I", "J", "K", "L", "M",
               "N", "O", "P", "Q", "R", "S", "T", "U", "V", "W", "X", "Y", "Z">>

LowerCase == <<"a", "b", "c", "d", "e", "f", "g", "h", "i", "j", "k", "l", "m",
               "n", "o", "p", "q", "r", "s", "t", "u", "v", "w", "x", "y", "z">>

Chars == {UpperCase[k] : k \in 1..26} \cup {LowerCase[k] : k \in 1..26} \cup {" "}

\* the lower-case mapping of str.lower(): an upper-case letter to its
\* lower-case letter, any other character to itself
ToLower ==
    [c \in Chars |->
        IF \E k \in 1..26 : UpperCase[k] = c
        THEN LowerCase[CHOOSE k \in 1..26 : UpperCase[k] = c]
        ELSE c]

\* str.lower() on one character
LowerChar(c) == ToLower[c]

\* str.lower()
lower(s) == [k \in 1..Len(s) |-> LowerChar(s[k])]

\* `word in s` on two str: plain containment of a contiguous run
StrIn(word, s) ==
    \E k \in 0..(Len(s) - Len(word)) : SubSeq(s, k + 1, k + Len(word)) = word

(***************************** outcomes ************************************)
Return(v) == [kind |-> "return", value |-> v]

ReturnNone == [kind |-> "none", value |-> "None"]

Raise(e) == [kind |-> "raise", value |-> e]

Pending == [kind |-> "pending", value |-> "pending"]

(***************************** registry ************************************)
\* The registry is a function from the codes it knows to their labels.
\* WeatherCodeRegistry.status_for(code): the label, or a lookup failure
status_for(registry, code) ==
    IF code \notin DOMAIN registry THEN Raise("LookupError")
    ELSE Return(registry[code])

(***************************** status_is ***********************************)
\* A plausible slip: both sides of the comparison lower-cased.
status_is_BothLowered(w, s, registry) ==
    LET looked == status_for(registry, w.code) IN
    IF looked.kind = "raise" THEN looked
    ELSE Return(lower(looked.value) = lower(s))

\* status_is(weather, status, weather_code_registry): the registry's label
\* for the weather's code, lower-cased, compared with status as given.  A
\* lookup failure is not caught.
status_is(w, s, registry) ==
    LET looked == status_for(registry, w.code) IN
    IF looked.kind = "raise" THEN looked
    ELSE LET weather_status == lower(looked.value) IN
         Return(weather_status = s)

(***************************** status_matches_any **************************)
RECURSIVE WordLoop(_, _, _)
\* for word in word_list: if word in detailed_status: return True
WordLoop(words, detailed_status, k) ==
    IF k > Len(words) THEN FALSE
    ELSE IF StrIn(words[k], detailed_status) THEN TRUE
    ELSE WordLoop(words, detailed_status, k + 1)

\* A plausible slip: the keywords lower-cased as well.
status_matches_any_WordsLowered(words, w) ==
    LET detailed_status == lower(w.detailed_status) IN
    WordLoop([k \in 1..Len(words) |-> lower(words[k])], detailed_status, 1)

\* status_matches_any(word_list, weather)
status_matches_any(words, w) ==
    LET detailed_status == lower(w.detailed_status) IN
    WordLoop(words, detailed_status, 1)

(***************************** filter_by_matching_statuses *****************)
RECURSIVE FilterLoop(_, _, _, _)
\* for weather in weathers_list: if status_matches_any(...): result.append(weather)
FilterLoop(words, ws, k, acc) ==
    IF k > Len(ws) THEN acc
    ELSE FilterLoop(words, ws, k + 1,
                    IF status_matches_any(words, ws[k]) THEN Append(acc, ws[k])
                    ELSE acc)

RECURSIVE FilterLoop_Distinct(_, _, _, _)
FilterLoop_Distinct(words, ws, k, acc) ==
    IF k > Len(ws) THEN acc
    ELSE FilterLoop_Distinct(words, ws, k + 1,
            IF status_matches_any(words, ws[k])
               /\ ~ \E m \in 1..Len(acc) : acc[m] = ws[k]
            THEN Append(acc, ws[k])
            ELSE acc)

\* A plausible slip: a record already in the result is not appended again.
filter_by_matching_statuses_Distinct(words, ws) ==
    FilterLoop_Distinct(words, ws, 1, <<>>)

\* filter_by_matching_statuses(word_list, weathers_list)
filter_by_matching_statuses(words, ws) == FilterLoop(words, ws, 1, <<>>)

(***************************** is_in_coverage ******************************)
RECURSIVE min(_)
\* the built-in min() of a non-empty list of integers
min(seq) ==
    IF Len(seq) = 1 THEN seq[1]
    ELSE LET m == min(Tail(seq)) IN IF seq[1] <= m THEN seq[1] ELSE m

RECURSIVE max(_)
\* the built-in max() of a non-empty list of integers
max(seq) ==
    IF Len(seq) = 1 THEN seq[1]
    ELSE LET m == max(Tail(seq)) IN IF seq[1] >= m THEN seq[1] ELSE m

\* [weather.get_reference_time() for weather in weathers_list]
reference_times(ws) == [k \in 1..Len(ws) |-> ws[k].reference_time]

\* A plausible slip: the list taken to be sorted by reference time.
is_in_coverage_Sorted(t, ws) ==
    IF ws = <<>> THEN FALSE
    ELSE LET min_of_coverage == ws[1].reference_time
             max_of_coverage == ws[Len(ws)].reference_time
         IN  IF t < min_of_coverage \/ t > max_of_coverage THEN FALSE ELSE TRUE

\* A plausible slip: the bounds of the coverage excluded.
is_in_coverage_Open(t, ws) ==
    IF ws = <<>> THEN FALSE
    ELSE LET min_of_coverage == min(reference_times(ws))
             max_of_coverage == max(reference_times(ws))
         IN  IF t <= min_of_coverage \/ t >= max_of_coverage THEN FALSE ELSE TRUE

\* is_in_coverage(unixtime, weathers_list)
is_in_coverage(t, ws) ==
    IF ws = <<>> THEN FALSE
    ELSE LET min_of_coverage == min(reference_times(ws))
             max_of_coverage == max(reference_times(ws))
         IN  IF t < min_of_coverage \/ t > max_of_coverage THEN FALSE ELSE TRUE

(***************************** find_closest_weather ************************)
\* the built-in abs()
abs(n) == IF n < 0 THEN 0 - n ELSE n

RECURSIVE ClosestLoop_LessEq(_, _, _, _, _)
\* A plausible slip: <= in place of <, so that a later tie replaces the best.
ClosestLoop_LessEq(ws, t, k, closest_weather, time_distance) ==
    IF k > Len(ws) THEN closest_weather
    ELSE IF abs(ws[k].reference_time - t) <= time_distance
         THEN ClosestLoop_LessEq(ws, t, k + 1, ws[k], abs(ws[k].reference_time - t))
         ELSE ClosestLoop_LessEq(ws, t, k + 1, closest_weather, time_distance)

RECURSIVE ClosestLoop_StaleDistance(_, _, _, _, _)
\* A plausible slip: time_distance not updated with the best candidate.
ClosestLoop_StaleDistance(ws, t, k, closest_weather, time_distance) ==
    IF k > Len(ws) THEN closest_weather
    ELSE IF abs(ws[k].reference_time - t) < time_distance
         THEN ClosestLoop_StaleDistance(ws, t, k + 1, ws[k], time_distance)
         ELSE ClosestLoop_StaleDistance(ws, t, k + 1, closest_weather, time_distance)

RECURSIVE ClosestLoop(_, _, _, _, _)
\* for weather in weathers_list: if abs(...) < time_distance: update both
ClosestLoop(ws, t, k, closest_weather, time_distance) ==
    IF k > Len(ws) THEN closest_weather
    ELSE IF abs(ws[k].reference_time - t) < time_distance
         THEN ClosestLoop(ws, t, k + 1, ws[k], abs(ws[k].reference_time - t))
         ELSE ClosestLoop(ws, t, k + 1, closest_weather, time_distance)

\* find_closest_weather(weathers_list, unixtime)
find_closest_weather(ws, t) ==
    IF ws = <<>> THEN ReturnNone
    ELSE IF ~ is_in_coverage(t, ws) THEN Raise("NotFoundError")
    ELSE Return(ClosestLoop(ws, t, 1, ws[1], abs(ws[1].reference_time - t)))

(***************************** inputs **************************************)
SeqsUpTo(S, n) == UNION {[1..k -> S] : k \in 0..n}

Alphabet == {"a", "A", "b"}

Strings == SeqsUpTo(Alphabet, MaxStrLen)

rain == <<"r", "a", "i", "n">>

Rain == <<"R", "a", "i", "n">>

ran == <<"r", "a", "n">>

clear == <<"c", "l", "e", "a", "r">>

LightRain == <<"L", "i", "g", "h", "t", " ", "R", "a", "i", "n">>

Codes == {200, 500, 800}

Weather(c, d, t) == [code |-> c, detailed_status |-> d, reference_time |-> t]

Keywords == {<<>>, <<"A">>, <<"a", "b">>, rain, Rain, ran}

FilterKeywords == {rain, Rain, <<"a", "b">>}

Registries(codes, labels) == UNION {[D -> labels] : D \in SUBSET codes}

DefaultWeather == Weather(500, LightRain, 1)

DefaultRegistry == [c \in Codes |-> Rain]

Start ==
    /\ op = "idle" /\ pc = "idle" /\ i = 0 /\ queried = <<>> /\ result = Pending

\* one Weather, a status and a registry that knows at most the code 500
InitStatusIs ==
    /\ weather \in {Weather(c, LightRain, 1) : c \in {500, 800}}
    /\ weather_code_registry \in Registries({500}, Strings \cup {rain, Rain})
    /\ status \in Strings \cup {rain, Rain}
    /\ weathers_list = <<weather>>
    /\ word_list = <<rain>> /\ unixtime = 1

\* one Weather and a keyword list
InitMatches ==
    /\ weather \in {Weather(500, d, 1) : d \in Strings \cup {LightRain}}
    /\ word_list \in SeqsUpTo(Keywords, MaxWords)
    /\ weathers_list = <<weather>>
    /\ weather_code_registry = DefaultRegistry /\ status = rain /\ unixtime = 1

\* a list of Weathers that differ in detailed status, and a keyword list
InitFilter ==
    /\ weathers_list \in
         SeqsUpTo({Weather(500, d, 1) : d \in {LightRain, clear, <<"A", "b">>}}, MaxLen)
    /\ word_list \in SeqsUpTo(FilterKeywords, MaxWords)
    /\ weather = DefaultWeather
    /\ weather_code_registry = DefaultRegistry /\ status = rain /\ unixtime = 1

\* a list of Weathers that differ in code, and a registry that may lack codes
InitRegistry ==
    /\ weathers_list \in SeqsUpTo({Weather(c, LightRain, 1) : c \in Codes}, MaxLen)
    /\ weather_code_registry \in Registries(Codes, {Rain, clear})
    /\ status = rain
    /\ weather = DefaultWeather /\ word_list = <<rain>> /\ unixtime = 1

\* Weathers at two reference times that differ in code too, so that two
\* records of equal reference time are told apart
InitTies ==
    /\ weathers_list \in
         SeqsUpTo({Weather(c, LightRain, t) : c \in {500, 800}, t \in {1, 3}}, MaxLen)
    /\ unixtime \in 1..3
    /\ weather = DefaultWeather
    /\ weather_code_registry = DefaultRegistry /\ status = rain /\ word_list = <<rain>>

\* a list of Weathers that differ in reference time, in any order, and a time
InitTimes ==
    /\ weathers_list \in
         SeqsUpTo({Weather(500, LightRain, t) : t \in 1..MaxTime}, MaxLen)
    /\ unixtime \in 0..(MaxTime + 1)
    /\ weather = DefaultWeather
    /\ weather_code_registry = DefaultRegistry /\ status = rain /\ word_list = <<rain>>

Init ==
    /\ Start
    /\ (InitStatusIs \/ InitMatches \/ InitFilter \/ InitRegistry \/ InitTimes
          \/ InitTies)

(***************************** calls ***************************************)
Finish(name, outcome) ==
    /\ op' = name /\ pc' = "done" /\ result' = outcome
    /\ UNCHANGED <<i, queried>>

CallStatusIs ==
    /\ pc = "idle"
    /\ Finish("status_is", status_is(weather, status, weather_code_registry))
    /\ UNCHANGED inputs

\* any_status_is(weather_list, status, weather_code_registry): entering the loop
AnyStatusIsBegin ==
    /\ pc = "idle"
    /\ op' = "any_status_is" /\ pc' = "scan" /\ i' = 1
    /\ UNCHANGED <<queried, result>>
    /\ UNCHANGED inputs

\* A plausible slip: return False inside the loop, after the first record.
AnyStatusIsIteration_FirstOnly ==
    /\ pc = "scan" /\ i <= Len(weathers_list)
    /\ LET r == status_is(weathers_list[i], status, weather_code_registry) IN
       /\ queried' = Append(queried, weathers_list[i].code)
       /\ result' = r /\ pc' = "done" /\ i' = i
    /\ UNCHANGED op
    /\ UNCHANGED inputs

\* A plausible slip: every record tested before the results are looked at,
\* as in any([status_is(w, ...) for w in weather_list]).
AnyStatusIsIteration_NoShortCircuit ==
    /\ pc = "scan" /\ i <= Len(weathers_list)
    /\ LET r == status_is(weathers_list[i], status, weather_code_registry) IN
       /\ queried' = Append(queried, weathers_list[i].code)
       /\ IF r.kind = "raise"
          THEN result' = r /\ pc' = "done" /\ i' = i
          ELSE /\ i' = i + 1
               /\ result' = IF r.value THEN Return(TRUE) ELSE result
               /\ pc' = IF i = Len(weathers_list) /\ result'.kind = "return"
                        THEN "done" ELSE pc
    /\ UNCHANGED op
    /\ UNCHANGED inputs

\* one iteration: if status_is(weather, ...): return True
AnyStatusIsIteration ==
    /\ pc = "scan" /\ i <= Len(weathers_list)
    /\ LET r == status_is(weathers_list[i], status, weather_code_registry) IN
       /\ queried' = Append(queried, weathers_list[i].code)
       /\ IF r.kind = "raise"
          THEN result' = r /\ pc' = "done" /\ i' = i
          ELSE IF r.value
               THEN result' = Return(TRUE) /\ pc' = "done" /\ i' = i
               ELSE result' = result /\ pc' = pc /\ i' = i + 1
    /\ UNCHANGED op
    /\ UNCHANGED inputs

\* the loop is exhausted: return False
AnyStatusIsExhausted ==
    /\ pc = "scan" /\ i > Len(weathers_list)
    /\ result' = Return(FALSE) /\ pc' = "done"
    /\ UNCHANGED <<op, i, queried>>
    /\ UNCHANGED inputs

CallStatusMatchesAny ==
    /\ pc = "idle"
    /\ Finish("status_matches_any", Return(status_matches_any(word_list, weather)))
    /\ UNCHANGED inputs

\* A plausible slip: the matching records moved out of the source list.
CallFilterByMatchingStatuses_Destructive ==
    /\ pc = "idle"
    /\ Finish("filter_by_matching_statuses",
              Return(filter_by_matching_statuses(word_list, weathers_list)))
    /\ weathers_list' =
         SelectSeq(weathers_list, LAMBDA w : ~ status_matches_any(word_list, w))
    /\ UNCHANGED <<weather, status, weather_code_registry, word_list, unixtime>>

CallFilterByMatchingStatuses ==
    /\ pc = "idle"
    /\ Finish("filter_by_matching_statuses",
              Return(filter_by_matching_statuses(word_list, weathers_list)))
    /\ UNCHANGED inputs

CallIsInCoverage ==
    /\ pc = "idle"
    /\ Finish("is_in_coverage", Return(is_in_coverage(unixtime, weathers_list)))
    /\ UNCHANGED inputs

CallFindClosestWeather ==
    /\ pc = "idle"
    /\ Finish("find_closest_weather", find_closest_weather(weathers_list, unixtime))
    /\ UNCHANGED inputs

Next ==
    \/ CallStatusIs
    \/ AnyStatusIsBegin
    \/ AnyStatusIsIteration
    \/ AnyStatusIsExhausted
    \/ CallStatusMatchesAny
    \/ CallFilterByMatchingStatuses
    \/ CallIsInCoverage
    \/ CallFindClosestWeather

Spec == Init /\ [][Next]_vars

(***************************** properties **********************************)
Done(name) == pc = "done" /\ op = name

Indices == 1..Len(weathers_list)

TimeAt(k) == weathers_list[k].reference_time

Distance(t) == IF t >= unixtime THEN t - unixtime ELSE unixtime - t

\* min(reference times) <= unixtime <= max(reference times), list non-empty
Covered ==
    /\ \E k \in Indices : TimeAt(k) <= unixtime
    /\ \E k \in Indices : unixtime <= TimeAt(k)

\* C1: for a non-empty list and a timestamp within [min, max] of the
\* reference times, find_closest_weather returns an element of the list whose
\* absolute distance to the timestamp is at most that of every record.
C1_ClosestIsMinimal ==
    (Done("find_closest_weather") /\ Covered) =>
        /\ result.kind = "return"
        /\ \E k \in Indices : weathers_list[k] = result.value
        /\ \A m \in Indices :
              Distance(result.value.reference_time) <= Distance(TimeAt(m))

C1_Witness ==
    /\ Done("find_closest_weather") /\ Covered
    /\ Len(weathers_list) = 3
    /\ result.kind = "return"
    /\ result.value = weathers_list[2]
    /\ Distance(TimeAt(2)) > 0
    /\ Distance(TimeAt(2)) < Distance(TimeAt(1))
    /\ Distance(TimeAt(2)) < Distance(TimeAt(3))

\* the lowest index whose record is at the minimal distance
FirstClosest ==
    CHOOSE k \in Indices :
        /\ \A m \in Indices : Distance(TimeAt(k)) <= Distance(TimeAt(m))
        /\ \A m \in 1..(k - 1) : Distance(TimeAt(m)) > Distance(TimeAt(k))

\* C2: when several records are at the same minimal distance from an
\* in-coverage timestamp, find_closest_weather returns the one of lowest
\* index; a later equally-close record never replaces an earlier one.
C2_FirstOfTiesWins ==
    (Done("find_closest_weather") /\ Covered) =>
        /\ result.kind = "return"
        /\ result.value = weathers_list[FirstClosest]

\* times [1, 3, 5] and timestamp 2 (the spec's [100, 200, 300] and 150, with
\* 100 for 1 and steps of 50): the record of time 1 is returned, not that of
\* time 3
C2_Witness ==
    /\ Done("find_closest_weather")
    /\ Len(weathers_list) = 3
    /\ TimeAt(1) = 1 /\ TimeAt(2) = 3 /\ TimeAt(3) = 5
    /\ unixtime = 2
    /\ result.kind = "return"
    /\ result.value = weathers_list[1]

\* C3: find_closest_weather has three disjoint outcomes: None iff the list is
\* empty; NotFoundError iff the list is non-empty and the timestamp is
\* strictly below the minimum or strictly above the maximum reference time;
\* a record otherwise.  A timestamp equal to the minimum or the maximum never
\* raises.
C3_ThreeOutcomes ==
    Done("find_closest_weather") =>
        /\ result.kind \in {"none", "raise", "return"}
        /\ result.kind = "none" <=> weathers_list = <<>>
        /\ result.kind = "raise" <=>
              /\ weathers_list # <<>>
              /\ \/ \A k \in Indices : unixtime < TimeAt(k)
                 \/ \A k \in Indices : unixtime > TimeAt(k)
        /\ result.kind = "raise" => result.value = "NotFoundError"
        /\ result.kind = "return" =>
              \E k \in Indices : weathers_list[k] = result.value
        /\ (\E k \in Indices : unixtime = TimeAt(k)) => result.kind # "raise"

\* the timestamp is the maximum, held by the first record of an unsorted list
C3_Witness ==
    /\ Done("find_closest_weather")
    /\ Len(weathers_list) >= 2
    /\ unixtime = TimeAt(1)
    /\ \A k \in Indices \ {1} : TimeAt(k) < unixtime
    /\ result.kind = "return"

\* C4: is_in_coverage is true iff the list is non-empty and
\* min <= unixtime <= max of the reference times, both bounds included,
\* whatever the order of the records; it is false for an empty list.
C4_CoverageIsClosedInterval ==
    Done("is_in_coverage") =>
        /\ result.kind = "return"
        /\ result.value = (weathers_list # <<>> /\ Covered)
        /\ weathers_list = <<>> => result.value = FALSE

\* an unsorted list: the timestamp is above the last record's time and below
\* the first's
C4_Witness ==
    /\ Done("is_in_coverage")
    /\ Len(weathers_list) >= 2
    /\ TimeAt(Len(weathers_list)) < unixtime
    /\ unixtime < TimeAt(1)
    /\ result.value = TRUE

Matching == {k \in Indices : status_matches_any(word_list, weathers_list[k])}

\* the index of the j-th matching record
NthMatching(j) ==
    CHOOSE k \in Matching : Cardinality({m \in Matching : m <= k}) = j

\* C5: filter_by_matching_statuses returns the records for which
\* status_matches_any is true, each occurrence once, in the order of the
\* list; the result is empty when the keyword list or the list is empty.
C5_FilterIsMatchingSubsequence ==
    Done("filter_by_matching_statuses") =>
        /\ result.kind = "return"
        /\ result.value =
              [j \in 1..Cardinality(Matching) |-> weathers_list[NthMatching(j)]]
        /\ (word_list = <<>> \/ weathers_list = <<>>) => result.value = <<>>

\* the same matching record before and after a record that does not match
C5_Witness ==
    /\ Done("filter_by_matching_statuses")
    /\ Len(weathers_list) = 3
    /\ weathers_list[1] = weathers_list[3]
    /\ Matching = {1, 3}
    /\ result.value = <<weathers_list[1], weathers_list[3]>>

CodeAt(k) == weathers_list[k].code

Known(k) == CodeAt(k) \in DOMAIN weather_code_registry

HasUpper(s) == \E k \in 1..Len(s), u \in 1..Len(UpperCase) : s[k] = UpperCase[u]

\* the label, lower-cased character by character, is s
LoweredIs(label, s) ==
    /\ Len(label) = Len(s)
    /\ \A k \in 1..Len(s) : LowerChar(label[k]) = s[k]

\* C6: when the registry has a label for every record's code, any_status_is
\* returns true iff status_is is true for at least one record of the list,
\* and false for an empty list.
C6_AnyStatusIsExists ==
    (Done("any_status_is") /\ \A k \in Indices : Known(k)) =>
        /\ result.kind = "return"
        /\ result.value =
              (\E k \in Indices :
                  status_is(weathers_list[k], status, weather_code_registry)
                      = Return(TRUE))
        /\ weathers_list = <<>> => result.value = FALSE

\* the spec's example: the first record is "clear", the second "rain", the
\* status asked for is "rain"
C6_Witness ==
    /\ Done("any_status_is")
    /\ Len(weathers_list) = 2
    /\ Known(1) /\ Known(2)
    /\ weather_code_registry[CodeAt(1)] = clear
    /\ weather_code_registry[CodeAt(2)] = Rain
    /\ status = rain
    /\ result.kind = "return" /\ result.value = TRUE
    /\ queried = <<CodeAt(1), CodeAt(2)>>

IsSubstring(word, s) ==
    \E o \in 0..Len(s) :
        /\ o + Len(word) <= Len(s)
        /\ \A j \in 1..Len(word) : s[o + j] = word[j]

LoweredDetailed == [k \in 1..Len(weather.detailed_status) |->
                       LowerChar(weather.detailed_status[k])]

\* C8: status_matches_any returns true iff at least one keyword, in its
\* original case, is a contiguous substring of the lower-cased detailed
\* status; false for an empty keyword list; a keyword with an upper-case
\* letter never matches.
C8_KeywordInLoweredStatus ==
    Done("status_matches_any") =>
        /\ result.kind = "return"
        /\ result.value =
              (\E k \in 1..Len(word_list) : IsSubstring(word_list[k], LoweredDetailed))
        /\ word_list = <<>> => result.value = FALSE
        /\ (\A k \in 1..Len(word_list) : HasUpper(word_list[k])) =>
              result.value = FALSE

\* "Rain" does not match "Light Rain", "rain" after it does
C8_Witness ==
    /\ Done("status_matches_any")
    /\ weather.detailed_status = LightRain
    /\ word_list = <<Rain, rain>>
    /\ result.value = TRUE

\* C9: no operation changes its inputs: in every step of every call, also
\* one that ends in an error, the record list, the keyword list, the
\* registry, the status, the timestamp and the Weather stay as they were.
C9_InputsUnchanged == [][inputs' = inputs]_vars

\* a filter that has left the first record out of its result: the list
\* still holds it
C9_Witness ==
    /\ Done("filter_by_matching_statuses")
    /\ result.value # <<>>
    /\ Len(result.value) < Len(weathers_list)
    /\ weathers_list[1] \notin {result.value[k] : k \in 1..Len(result.value)}

Match(k) ==
    /\ Known(k)
    /\ LoweredIs(weather_code_registry[CodeAt(k)], status)

\* C10: any_status_is scans in list order, asks the registry once per
\* scanned record and stops at the first match: a lookup failure propagates
\* iff the record it is about precedes every matching record; when a
\* matching record comes first the call returns true and the registry is not
\* asked about the later records.
C10_ScanOrderAndShortCircuit ==
    /\ op = "any_status_is" =>
          /\ Len(queried) <= Len(weathers_list)
          /\ \A k \in 1..Len(queried) : queried[k] = CodeAt(k)
          /\ pc = "scan" => Len(queried) = i - 1
    /\ Done("any_status_is") =>
          /\ (result.kind = "raise") <=>
                \E k \in Indices : ~ Known(k) /\ \A m \in 1..(k - 1) : ~ Match(m)
          /\ result.kind = "raise" => result.value = "LookupError"
          /\ \A k \in Indices :
                (Match(k) /\ \A m \in 1..(k - 1) : Known(m) /\ ~ Match(m)) =>
                    /\ result.kind = "return" /\ result.value = TRUE
                    /\ Len(queried) = k

\* a record without a label between one that does not match and one that
\* does: the failure propagates and the third record is never looked up
C10_Witness ==
    /\ Done("any_status_is")
    /\ Len(weathers_list) = 3
    /\ Known(1) /\ ~ Match(1)
    /\ ~ Known(2)
    /\ Match(3)
    /\ result.kind = "raise"
    /\ queried = <<CodeAt(1), CodeAt(2)>>

====
